---- MODULE Spec2Model ----
(***************************************************************************)
(* Model of cmd/dagger/cmd/doc.go: the `dagger doc` command.               *)
(*                                                                         *)
(* Go strings are modelled as sequences of bytes (numbers 0..255), so that *)
(* byte slicing (terminalTrim), rune counting (utf8.RuneCountInString),    *)
(* strings.ReplaceAll (mdEscape) and strings.TrimPrefix (formatLabel) are  *)
(* computed the way the code computes them.                                *)
(*                                                                         *)
(* Two specifications:                                                     *)
(*   Spec      one run of docCmd.Run / PrintDoc over a package             *)
(*   SpecTrim  one call of terminalTrim, one loop iteration per step       *)
(***************************************************************************)
EXTENDS Integers, Sequences, FiniteSets, TLC

\* ------------------------------------------------------------------ bounds
\* longest package (number of top-level members of the root value)
MaxFields == 3
\* widest terminal term.GetSize reports
MaxWidth == 5
\* longest message, in characters, handed to terminalTrim in SpecTrim
MaxChars == 4

\* ----------------------------------------------------------------- strings
\* "txt", "md", "json" (doc.go:25-30); "yaml" stands for any other value
textFormat == "txt"
markdownFormat == "md"
jsonFormat == "json"

\* the "no comment" marker common.ValueDocString returns: "-"
NoComment == <<45>>
\* "." appended to the name in formatLabel
Dot == <<46>>
\* the ellipsis character U+2026, three bytes in UTF-8
Ellipsis == <<226, 128, 166>>

HasPrefix(s, p) ==
    /\ Len(s) >= Len(p)
    /\ SubSeq(s, 1, Len(p)) = p

\* strings.TrimPrefix
TrimPrefix(s, p) ==
    IF HasPrefix(s, p) THEN SubSeq(s, Len(p) + 1, Len(s)) ELSE s

\* strings.ReplaceAll for a non-empty old
RECURSIVE ReplaceAll(_, _, _)
ReplaceAll(s, old, new) ==
    IF s = <<>> THEN <<>>
    ELSE IF HasPrefix(s, old)
         THEN new \o ReplaceAll(SubSeq(s, Len(old) + 1, Len(s)), old, new)
         ELSE <<Head(s)>> \o ReplaceAll(Tail(s), old, new)

\* mdEscape: "|", "<", ">" each replaced by a backslash and itself, in turn
mdEscape(s) ==
    LET s1 == ReplaceAll(s, <<124>>, <<92, 124>>)
        s2 == ReplaceAll(s1, <<60>>, <<92, 60>>)
    IN  ReplaceAll(s2, <<62>>, <<92, 62>>)

\* ------------------------------------------------------------------- utf8
\* Length of the UTF-8 sequence a first byte announces; 0 for a byte that
\* cannot start one (a continuation byte, 0xC0, 0xC1, 0xF5..0xFF).
SeqSize(c) ==
    IF c < 128 THEN 1
    ELSE IF c >= 194 /\ c <= 223 THEN 2
    ELSE IF c >= 224 /\ c <= 239 THEN 3
    ELSE IF c >= 240 /\ c <= 244 THEN 4
    ELSE 0

\* the range the second byte must lie in (utf8 acceptRanges)
AcceptLo(c) == IF c = 224 THEN 160 ELSE IF c = 240 THEN 144 ELSE 128
AcceptHi(c) == IF c = 237 THEN 159 ELSE IF c = 244 THEN 143 ELSE 191

IsCont(b) == b >= 128 /\ b <= 191

\* Bytes consumed by the rune starting at s[i]: the sequence length when it
\* is well formed, 1 (one RuneError) otherwise.
RuneWidthAt(s, i) ==
    LET c == s[i]
        n == SeqSize(c)
    IN  IF n <= 1 THEN 1
        ELSE IF i + n - 1 > Len(s) THEN 1
        ELSE IF s[i + 1] < AcceptLo(c) \/ s[i + 1] > AcceptHi(c) THEN 1
        ELSE IF n = 2 THEN 2
        ELSE IF ~IsCont(s[i + 2]) THEN 1
        ELSE IF n = 3 THEN 3
        ELSE IF ~IsCont(s[i + 3]) THEN 1
        ELSE 4

RECURSIVE RuneCountFrom(_, _)
RuneCountFrom(s, i) ==
    IF i > Len(s) THEN 0 ELSE 1 + RuneCountFrom(s, i + RuneWidthAt(s, i))

\* utf8.RuneCountInString
RuneCountInString(s) == RuneCountFrom(s, 1)

\* Whether s is a sequence of well-formed characters only.
RECURSIVE ValidFrom(_, _)
ValidFrom(s, i) ==
    IF i > Len(s) THEN TRUE
    ELSE /\ SeqSize(s[i]) >= 1
         /\ RuneWidthAt(s, i) = SeqSize(s[i])
         /\ ValidFrom(s, i + RuneWidthAt(s, i))

ValidString(s) == ValidFrom(s, 1)

\* ----------------------------------------------------------- terminalTrim
\* The terminal as term.GetSize(1) sees it: an error, or a width.
Terminals ==
    {[err |-> TRUE, width |-> 0]} \cup
    {[err |-> FALSE, width |-> w] : w \in 0..MaxWidth}

\* mutant: the loop runs while the message is at least as long as the target
TrimCond_ge(msg, size) == RuneCountInString(msg) >= size

\* doc.go:110, the loop condition
TrimCond(msg, size) == RuneCountInString(msg) > size

\* doc.go:111, the slice expression panics when len(msg) < 4
TrimPanics(msg) == Len(msg) < 4

\* doc.go:111, the loop body: four bytes off the tail, the ellipsis appended
TrimStep(msg) == SubSeq(msg, 1, Len(msg) - 4) \o Ellipsis

\* doc.go:109
HalfWidth(t) == t.width \div 2

RECURSIVE trimLoop(_, _)
trimLoop(msg, size) ==
    IF ~TrimCond(msg, size) THEN [panic |-> FALSE, msg |-> msg]
    ELSE IF TrimPanics(msg) THEN [panic |-> TRUE, msg |-> msg]
    ELSE trimLoop(TrimStep(msg), size)

\* terminalTrim(msg) on terminal t: the string returned, or a panic
terminalTrim(msg, t) ==
    IF t.err THEN [panic |-> FALSE, msg |-> msg]
    ELSE trimLoop(msg, HalfWidth(t))

\* ------------------------------------------------------------ formatLabel
\* mutant: the prefix is trimmed without the dot
formatLabel_nodot(name, path) == TrimPrefix(path, name)

\* formatLabel(name, val), path = val.Path().String()
formatLabel(name, path) == TrimPrefix(path, name \o Dot)

\* -------------------------------------------------------------- the input
\* What the compiler, the value describer and the I/O classifier report for
\* a package.  A value node carries its dotted path (val.Path().String()),
\* its type string (common.FormatValue) and its doc string
\* (common.ValueDocString, "-" when there is no comment).
Node(label, sub, type, doc) ==
    [path |-> label \o Dot \o sub, type |-> type, doc |-> doc]

\* A top-level member of the root value: its label, whether its selector is
\* a definition, its incomplete kind, and what ValueDocString, ScanInputs
\* and ScanOutputs return for its value.
Member(label, isDef, kind, doc, inputs, outputs) ==
    [label |-> label, isDef |-> isDef, kind |-> kind, doc |-> doc,
     inputs |-> inputs, outputs |-> outputs]

\* "#A": a definition with no comment, no input and no output
MemberA == Member(<<35, 65>>, TRUE, "struct", NoComment, <<>>, <<>>)
\* "#B": two inputs, no output; "B|" / x: "s", "-" / y.z: "s|i", "abcdefg"
MemberB ==
    Member(<<35, 66>>, TRUE, "struct", <<66, 124>>,
           <<Node(<<35, 66>>, <<120>>, <<115>>, NoComment),
             Node(<<35, 66>>, <<121, 46, 122>>, <<115, 124, 105>>,
                  <<97, 98, 99, 100, 101, 102, 103>>)>>,
           <<>>)
\* "#C": one input, two outputs, multi-byte docs
MemberC ==
    Member(<<35, 67>>, TRUE, "struct", <<195, 169>>,
           <<Node(<<35, 67>>, <<120>>, <<115>>, <<97, 98, 195, 169, 99>>)>>,
           <<Node(<<35, 67>>, <<111>>, <<105>>, <<60, 111, 62, 32, 100>>),
             Node(<<35, 67>>, <<112>>, <<98>>, <<100, 111, 99, 115>>)>>)
\* "d": a regular field (not a definition) whose value is a struct
MemberD ==
    Member(<<100>>, FALSE, "struct", <<100>>,
           <<Node(<<100>>, <<120>>, <<115>>, NoComment)>>, <<>>)
\* "#E": a definition whose value is a string
MemberE == Member(<<35, 69>>, TRUE, "string", <<101>>, <<>>, <<>>)
\* "#F": no input, one output
MemberF ==
    Member(<<35, 70>>, TRUE, "struct", NoComment, <<>>,
           <<Node(<<35, 70>>, <<111>>, <<115>>, <<111, 117, 116>>)>>)

MemberPool == {MemberA, MemberB, MemberC, MemberD, MemberE, MemberF}

\* Member lists: labels are unique within a struct, the order is the
\* compiler's.
MemberLists ==
    UNION {{s \in [1..n -> MemberPool] :
               \A i, j \in 1..n : i # j => s[i] # s[j]} : n \in 0..MaxFields}

\* the package doc strings: "-" and "P>"
PackageDocs == {NoComment, <<80, 62>>}

\* the root values compiler.Build may return
Packages == {[doc |-> d, members |-> ms] : d \in PackageDocs, ms \in MemberLists}

\* the package argument: "p"
PackageName == <<112>>

Formats == {textFormat, markdownFormat, jsonFormat, "yaml"}

\* ------------------------------------------------------------- Go slices
\* A slice is nil or holds elements; json.Marshal tells the two apart.
NilSlice == [nil |-> TRUE, elems |-> <<>>]
SliceAppend(sl, x) == [nil |-> FALSE, elems |-> Append(sl.elems, x)]

\* FieldJSON{} and PackageJSON{}
ZeroFieldJSON ==
    [Name |-> <<>>, Description |-> <<>>, Inputs |-> NilSlice, Outputs |-> NilSlice]
ZeroPackageJSON == [Name |-> <<>>, Description |-> <<>>, Fields |-> NilSlice]

\* --------------------------------------------------------------- the state
VARIABLES
    format,       \* viper.GetString("output")
    term,         \* what term.GetSize(1) answers during the run
    val,          \* the root value loadCode returned
    pc,           \* where docCmd.Run / PrintDoc stands
    out,          \* what has been written to os.Stdout, one record per write
    log,          \* the fatal messages handed to the logger
    fields,       \* PrintDoc's fields
    idx,          \* position of the range loop in fields (1-based)
    packageJSON,  \* PrintDoc's packageJSON
    fieldJSON,    \* the loop body's fieldJSON
    tmsg0,        \* terminalTrim: the argument
    tmsg,         \* terminalTrim: msg
    tpc           \* terminalTrim: where the call stands

docVars == <<format, val, pc, out, log, fields, idx, packageJSON, fieldJSON>>
trimVars == <<tmsg0, tmsg, tpc>>
vars == <<format, term, val, pc, out, log, fields, idx, packageJSON, fieldJSON,
          tmsg0, tmsg, tpc>>

NoValue == [doc |-> <<>>, members |-> <<>>]

\* ------------------------------------------------------------ the renderers
\* mutant: the values are printed without the last one
RowsText_short(libName, values, t) ==
    [i \in 1..(Len(values) - 1) |->
        [label |-> formatLabel(libName, values[i].path),
         type |-> values[i].type,
         doc |-> terminalTrim(values[i].doc, t).msg]]

\* printValuesText, the loop: one tabwriter row per value
RowsText(libName, values, t) ==
    [i \in 1..Len(values) |->
        [label |-> formatLabel(libName, values[i].path),
         type |-> values[i].type,
         doc |-> terminalTrim(values[i].doc, t).msg]]

\* printValuesText: "Inputs:" goes to stdout at once, the rows reach it when
\* the tabwriter is flushed; a panic in terminalTrim leaves them unwritten.
printValuesText(libName, values, t) ==
    LET panics == \E i \in 1..Len(values) : terminalTrim(values[i].doc, t).panic
        header == [k |-> "Header", text |-> "Inputs:"]
    IN  [panic |-> panics,
         events |-> IF panics THEN <<header>>
                    ELSE <<header,
                           [k |-> "Rows", rows |-> RowsText(libName, values, t)]>>]

\* printValuesMarkdown, the loop: one table row per value
RowsMarkdown(libName, values) ==
    [i \in 1..Len(values) |->
        [label |-> formatLabel(libName, values[i].path),
         type |-> mdEscape(values[i].type),
         doc |-> mdEscape(values[i].doc)]]

\* printValuesMarkdown: the table head, the rows and a blank line, flushed
printValuesMarkdown(libName, values) ==
    <<[k |-> "Table", rows |-> RowsMarkdown(libName, values)]>>

\* mutant: val starts as a nil slice (var val []ValueJSON)
valuesToJSON_nil(libName, values) ==
    [nil |-> values = <<>>,
     elems |-> [i \in 1..Len(values) |->
                  [Name |-> formatLabel(libName, values[i].path),
                   Type |-> values[i].type,
                   Description |-> values[i].doc]]]

\* valuesToJSON: val := []ValueJSON{}, then one append per value
valuesToJSON(libName, values) ==
    [nil |-> FALSE,
     elems |-> [i \in 1..Len(values) |->
                  [Name |-> formatLabel(libName, values[i].path),
                   Type |-> values[i].type,
                   Description |-> values[i].doc]]]

\* json.MarshalIndent of a slice: null for a nil slice, an array otherwise
MarshalValues(sl) ==
    [null |-> sl.nil, items |-> [i \in 1..Len(sl.elems) |-> sl.elems[i]]]

MarshalField(f) ==
    [Name |-> f.Name, Description |-> f.Description,
     Inputs |-> MarshalValues(f.Inputs),
     Outputs |-> MarshalValues(f.Outputs)]

MarshalFields(sl) ==
    [null |-> sl.nil,
     items |-> [i \in 1..Len(sl.elems) |-> MarshalField(sl.elems[i])]]

\* json.MarshalIndent(packageJSON, "", "    "), as the document it decodes to
MarshalPackage(p) ==
    [Name |-> p.Name, Description |-> p.Description,
     Fields |-> MarshalFields(p.Fields)]

\* ----------------------------------------------------- docCmd.Run, PrintDoc
Init ==
    /\ format \in Formats
    /\ term \in Terminals
    /\ val = NoValue
    /\ pc = "run"
    /\ out = <<>>
    /\ log = <<>>
    /\ fields = <<>>
    /\ idx = 1
    /\ packageJSON = ZeroPackageJSON
    /\ fieldJSON = ZeroFieldJSON
    /\ tmsg0 = <<>>
    /\ tmsg = <<>>
    /\ tpc = "idle"

ValidFormat(f) == f \in {textFormat, markdownFormat, jsonFormat}

\* lg.Fatal(): the message is logged and the process exits
Fatal(msg) ==
    /\ pc' = "fatal"
    /\ log' = Append(log, msg)

\* doc.go:68-73
RunBadFormat ==
    /\ pc = "run"
    /\ ~ValidFormat(format)
    /\ Fatal("output must be either txt, md or json")
    /\ UNCHANGED <<format, term, val, out, fields, idx, packageJSON, fieldJSON>>
    /\ UNCHANGED trimVars

\* doc.go:77-80, loadCode fails
RunBuildFail ==
    /\ pc = "run"
    /\ ValidFormat(format)
    /\ Fatal("cannot compile code")
    /\ UNCHANGED <<format, term, val, out, fields, idx, packageJSON, fieldJSON>>
    /\ UNCHANGED trimVars

\* doc.go:77-81, loadCode returns a value and PrintDoc is called
RunOK ==
    /\ pc = "run"
    /\ ValidFormat(format)
    /\ \E v \in Packages : val' = v
    /\ pc' = "fields"
    /\ UNCHANGED <<format, term, out, log, fields, idx, packageJSON, fieldJSON>>
    /\ UNCHANGED trimVars

\* The package header, doc.go:186-204, as the writes it makes.
HeaderEvents(f, name, comment) ==
    IF f = textFormat
    THEN <<[k |-> "Package", name |-> name], [k |-> "PackageDoc", doc |-> comment]>>
    ELSE IF f = markdownFormat
    THEN <<[k |-> "H2", name |-> mdEscape(name)],
           IF comment = NoComment
           THEN [k |-> "Blank"]
           ELSE [k |-> "Para", doc |-> mdEscape(comment)]>>
    ELSE <<>>

\* The package header in json mode, doc.go:198-203.
HeaderJSON(p, name, comment) ==
    [p EXCEPT !.Name = name,
              !.Description = IF comment # <<>> THEN comment ELSE @]

\* mutant: the header is printed before the error of val.Fields is looked at
FieldsFail_afterHeader ==
    /\ pc = "fields"
    /\ Fatal("cannot get fields")
    /\ out' = out \o HeaderEvents(format, PackageName, val.doc)
    /\ UNCHANGED <<format, term, val, fields, idx, packageJSON, fieldJSON>>
    /\ UNCHANGED trimVars

\* doc.go:179-182, val.Fields fails
FieldsFail ==
    /\ pc = "fields"
    /\ Fatal("cannot get fields")
    /\ UNCHANGED <<format, term, val, out, fields, idx, packageJSON, fieldJSON>>
    /\ UNCHANGED trimVars

\* doc.go:179, val.Fields(cue.Definitions(true)) succeeds
FieldsOK ==
    /\ pc = "fields"
    /\ fields' = val.members
    /\ pc' = "header"
    /\ UNCHANGED <<format, term, val, out, log, idx, packageJSON, fieldJSON>>
    /\ UNCHANGED trimVars

\* doc.go:184-204
Header ==
    /\ pc = "header"
    /\ out' = out \o HeaderEvents(format, PackageName, val.doc)
    /\ packageJSON' = IF format = jsonFormat
                      THEN HeaderJSON(ZeroPackageJSON, PackageName, val.doc)
                      ELSE ZeroPackageJSON
    /\ idx' = 1
    /\ pc' = "loop"
    /\ UNCHANGED <<format, term, val, log, fields, fieldJSON>>
    /\ UNCHANGED trimVars

\* mutant: the struct test is left out
Skipped_defOnly(m) == ~m.isDef

\* doc.go:210-220: a member that is no definition, or whose value is no
\* struct, is skipped
Skipped(m) == ~m.isDef \/ m.kind # "struct"

\* doc.go:207, the range is exhausted
LoopEnd ==
    /\ pc = "loop"
    /\ idx > Len(fields)
    /\ pc' = "marshal"
    /\ UNCHANGED <<format, term, val, out, log, fields, idx, packageJSON, fieldJSON>>
    /\ UNCHANGED trimVars

\* doc.go:207-220, continue
SkipField ==
    /\ pc = "loop"
    /\ idx <= Len(fields)
    /\ Skipped(fields[idx])
    /\ fieldJSON' = ZeroFieldJSON
    /\ idx' = idx + 1
    /\ UNCHANGED <<format, term, val, pc, out, log, fields, packageJSON>>
    /\ UNCHANGED trimVars

\* The field header, doc.go:224-231, as the writes it makes.
FieldEvents(f, name, comment) ==
    IF f = textFormat
    THEN <<[k |-> "Field", name |-> name, doc |-> comment]>>
    ELSE IF f = markdownFormat
    THEN <<[k |-> "H3", name |-> name]>> \o
         (IF comment # NoComment
          THEN <<[k |-> "Para", doc |-> mdEscape(comment)]>>
          ELSE <<>>)
    ELSE <<>>

\* The field header in json mode, doc.go:232-237: the description is read
\* from val, the root value, not from v.
FieldHeaderJSON(name, root, v) ==
    LET comment == root.doc
    IN  [ZeroFieldJSON EXCEPT
            !.Name = name,
            !.Description = IF comment # <<>> THEN comment ELSE @]

\* doc.go:207-238
FieldHeader ==
    /\ pc = "loop"
    /\ idx <= Len(fields)
    /\ ~Skipped(fields[idx])
    /\ LET v == fields[idx]
       IN  /\ out' = out \o FieldEvents(format, v.label, v.doc)
           /\ fieldJSON' = IF format = jsonFormat
                           THEN FieldHeaderJSON(v.label, val, v)
                           ELSE ZeroFieldJSON
    /\ pc' = "inputs"
    /\ UNCHANGED <<format, term, val, log, fields, idx, packageJSON>>
    /\ UNCHANGED trimVars

\* doc.go:243-248 and 263-268: the text section of one group of values
SectionText(noneText, name, values, t) ==
    IF Len(values) = 0
    THEN [panic |-> FALSE, events |-> <<[k |-> "None", text |-> noneText]>>]
    ELSE printValuesText(name, values, t)

\* doc.go:249-255 and 269-275: the Markdown section of one group of values
SectionMarkdown(title, noneText, name, values) ==
    <<[k |-> "H4", name |-> mdEscape(name), text |-> title]>> \o
    (IF Len(values) = 0
     THEN <<[k |-> "None", text |-> noneText]>>
     ELSE printValuesMarkdown(name, values))

\* doc.go:241-258; inp = environment.ScanInputs(ctx, v)
Inputs ==
    /\ pc = "inputs"
    /\ LET v == fields[idx]
           name == v.label
           inp == v.inputs
           txt == SectionText("Inputs: none", name, inp, term)
       IN  /\ out' = IF format = textFormat THEN out \o txt.events
                     ELSE IF format = markdownFormat
                     THEN out \o SectionMarkdown("Inputs", "_No input._", name, inp)
                     ELSE out
           /\ fieldJSON' = IF format = jsonFormat
                           THEN [fieldJSON EXCEPT !.Inputs = valuesToJSON(name, inp)]
                           ELSE fieldJSON
           /\ pc' = IF format = textFormat /\ txt.panic THEN "panic" ELSE "outputs"
    /\ UNCHANGED <<format, term, val, log, fields, idx, packageJSON>>
    /\ UNCHANGED trimVars

\* mutant: the record is appended before its Outputs are set
OutputsJSON_early(p, f, name, outs) ==
    [field |-> [f EXCEPT !.Outputs = valuesToJSON(name, outs)],
     package |-> [p EXCEPT !.Fields = SliceAppend(@, f)]]

\* doc.go:276-278: Outputs are set, then the record is appended to Fields
OutputsJSON(p, f, name, outs) ==
    LET g == [f EXCEPT !.Outputs = valuesToJSON(name, outs)]
    IN  [field |-> g, package |-> [p EXCEPT !.Fields = SliceAppend(@, g)]]

\* doc.go:261-280; out = environment.ScanOutputs(ctx, v)
Outputs ==
    /\ pc = "outputs"
    /\ LET v == fields[idx]
           name == v.label
           outs == v.outputs
           txt == SectionText("Outputs: none", name, outs, term)
           js == OutputsJSON(packageJSON, fieldJSON, name, outs)
       IN  /\ out' = IF format = textFormat THEN out \o txt.events
                     ELSE IF format = markdownFormat
                     THEN out \o SectionMarkdown("Outputs", "_No output._", name, outs)
                     ELSE out
           /\ fieldJSON' = IF format = jsonFormat THEN js.field ELSE fieldJSON
           /\ packageJSON' = IF format = jsonFormat THEN js.package ELSE packageJSON
           /\ IF format = textFormat /\ txt.panic
              THEN pc' = "panic" /\ idx' = idx
              ELSE pc' = "loop" /\ idx' = idx + 1
    /\ UNCHANGED <<format, term, val, log, fields>>
    /\ UNCHANGED trimVars

\* doc.go:282-288: in json mode the document is marshalled and printed.
\* Marshalling these records (strings and slices) returns no error.
MarshalEvents(f, p) ==
    IF f = jsonFormat THEN <<[k |-> "JSON", doc |-> MarshalPackage(p)]>> ELSE <<>>

Marshal ==
    /\ pc = "marshal"
    /\ out' = out \o MarshalEvents(format, packageJSON)
    /\ pc' = "done"
    /\ UNCHANGED <<format, term, val, log, fields, idx, packageJSON, fieldJSON>>
    /\ UNCHANGED trimVars

Next ==
    \/ RunBadFormat
    \/ RunBuildFail
    \/ RunOK
    \/ FieldsFail
    \/ FieldsOK
    \/ Header
    \/ LoopEnd
    \/ SkipField
    \/ FieldHeader
    \/ Inputs
    \/ Outputs
    \/ Marshal

Spec == Init /\ [][Next]_vars

\* ------------------------------------------------- terminalTrim, step by step
\* The characters messages are made of: "a", "é", "…" and U+1F600, of one,
\* two, three and four bytes.
Chars == {<<97>>, <<195, 169>>, Ellipsis, <<240, 159, 152, 128>>}

RECURSIVE Concat(_)
Concat(cs) == IF cs = <<>> THEN <<>> ELSE Head(cs) \o Concat(Tail(cs))

\* the messages of at most MaxChars characters
Messages == UNION {{Concat(cs) : cs \in [1..n -> Chars]} : n \in 0..MaxChars}

InitTrim ==
    /\ format = textFormat
    /\ term \in Terminals
    /\ val = NoValue
    /\ pc = "idle"
    /\ out = <<>>
    /\ log = <<>>
    /\ fields = <<>>
    /\ idx = 1
    /\ packageJSON = ZeroPackageJSON
    /\ fieldJSON = ZeroFieldJSON
    /\ tmsg0 \in Messages
    /\ tmsg = tmsg0
    /\ tpc = "call"

\* doc.go:103-106: the size cannot be read, msg is returned
TrimNoTerminal ==
    /\ tpc = "call"
    /\ term.err
    /\ tpc' = "ret"
    /\ UNCHANGED <<tmsg0, tmsg, term>>
    /\ UNCHANGED docVars

\* doc.go:103-109: the size is read and halved
TrimEnter ==
    /\ tpc = "call"
    /\ ~term.err
    /\ tpc' = "loop"
    /\ UNCHANGED <<tmsg0, tmsg, term>>
    /\ UNCHANGED docVars

\* doc.go:110-112: one iteration
TrimIter ==
    /\ tpc = "loop"
    /\ TrimCond(tmsg, HalfWidth(term))
    /\ ~TrimPanics(tmsg)
    /\ tmsg' = TrimStep(tmsg)
    /\ UNCHANGED <<tmsg0, tpc, term>>
    /\ UNCHANGED docVars

\* doc.go:111: the slice bound len(msg)-4 is negative
TrimPanic ==
    /\ tpc = "loop"
    /\ TrimCond(tmsg, HalfWidth(term))
    /\ TrimPanics(tmsg)
    /\ tpc' = "panic"
    /\ UNCHANGED <<tmsg0, tmsg, term>>
    /\ UNCHANGED docVars

\* doc.go:110, 113: the loop ends and msg is returned
TrimReturn ==
    /\ tpc = "loop"
    /\ ~TrimCond(tmsg, HalfWidth(term))
    /\ tpc' = "ret"
    /\ UNCHANGED <<tmsg0, tmsg, term>>
    /\ UNCHANGED docVars

NextTrim ==
    \/ TrimNoTerminal
    \/ TrimEnter
    \/ TrimIter
    \/ TrimPanic
    \/ TrimReturn

SpecTrim == InitTrim /\ [][NextTrim]_vars

\* The two models of terminalTrim agree: the call, taken step by step, ends
\* as the operator the renderer uses says.
TrimModelsAgree ==
    tpc \in {"ret", "panic"} =>
        terminalTrim(tmsg0, term) = [panic |-> tpc = "panic", msg |-> tmsg]

\* ------------------------------------------------------------------ claims
\* The members PrintDoc is to render: the definitions whose value is a
\* struct, in the compiler's order.
Rendered(ms) == SelectSeq(ms, LAMBDA m : m.isDef /\ m.kind = "struct")

\* How many members of fields the loop has gone past or is working on.
Started == IF pc \in {"inputs", "outputs", "panic"} THEN idx ELSE idx - 1

\* The rendered members the loop has reached, and how many it is through with.
StartedFields == Rendered(SubSeq(fields, 1, Started))
FinishedCount ==
    IF pc \in {"inputs", "outputs", "panic"}
    THEN Len(StartedFields) - 1
    ELSE Len(StartedFields)

OfKind(kind) == SelectSeq(out, LAMBDA e : e.k = kind)
Labels(ms) == [i \in 1..Len(ms) |-> ms[i].label]

\* The field names on the output: the text field lines, the Markdown ###
\* headings, the Names of the Fields of the JSON document.
FieldNamesOut ==
    IF format = textFormat
    THEN [i \in 1..Len(OfKind("Field")) |-> OfKind("Field")[i].name]
    ELSE IF format = markdownFormat
    THEN [i \in 1..Len(OfKind("H3")) |-> OfKind("H3")[i].name]
    ELSE IF OfKind("JSON") = <<>> THEN <<>>
    ELSE LET items == OfKind("JSON")[1].doc.Fields.items
         IN  [i \in 1..Len(items) |-> items[i].Name]

\* The places of out that hold a group of values: the flushed text rows, a
\* Markdown table, or a "none" line; the j-th of them is the inputs (j odd)
\* or the outputs (j even) of the ((j+1) \div 2)-th rendered member.
SectionIdx == {i \in 1..Len(out) : out[i].k \in {"Rows", "Table", "None"}}
Ordinal(i) == Cardinality({j \in SectionIdx : j <= i})
IsInputs(i) == Ordinal(i) % 2 = 1
OwnerOf(i) == StartedFields[(Ordinal(i) + 1) \div 2]
ValuesOf(i) == IF IsInputs(i) THEN OwnerOf(i).inputs ELSE OwnerOf(i).outputs

\* The sections written so far are those of the members the loop is through
\* with, and of the inputs of the member it is working on.
SectionCount ==
    IF pc = "outputs" THEN 2 * FinishedCount + 1
    ELSE IF pc = "panic" THEN Cardinality(SectionIdx)
    ELSE 2 * FinishedCount

C2_FieldDescription ==
    /\ format = jsonFormat =>
           \A i \in 1..Len(packageJSON.Fields.elems) :
               packageJSON.Fields.elems[i].Description = StartedFields[i].doc
    /\ format = textFormat =>
           \A i \in 1..Len(OfKind("Field")) :
               OfKind("Field")[i].doc = StartedFields[i].doc

\* C3: in text mode the outputs of a field are written as its inputs are,
\* under "Outputs": "Outputs: none" when there is none, rows under an
\* "Outputs:" header otherwise; the inputs come under "Inputs".
C3_TextOutputsSection ==
    format = textFormat =>
        \A i \in SectionIdx :
            IF out[i].k = "None"
            THEN out[i].text = (IF IsInputs(i) THEN "Inputs: none" ELSE "Outputs: none")
            ELSE /\ out[i - 1].k = "Header"
                 /\ out[i - 1].text = (IF IsInputs(i) THEN "Inputs:" ELSE "Outputs:")

\* what a text or Markdown row shows for a value: its type and, in Markdown,
\* its doc
RowShows(row, v) ==
    IF format = markdownFormat
    THEN row.type = mdEscape(v.type) /\ row.doc = mdEscape(v.doc)
    ELSE row.type = v.type

EntryShows(e, v) == e.Type = v.type /\ e.Description = v.doc

IsCharPrefix(p, s) == HasPrefix(s, p) /\ ValidString(p)

\* C5: on a terminal of any width terminalTrim returns (no slice out of
\* range), what it returns has at most width/2 characters, and when the
\* message was longer than that the result is whole characters from the
\* front of the message followed by one ellipsis.
C5_TrimFits ==
    /\ tpc # "panic"
    /\ (tpc = "ret" /\ ~term.err) =>
         /\ RuneCountInString(tmsg) <= HalfWidth(term)
         /\ RuneCountInString(tmsg0) > HalfWidth(term) =>
              \E n \in 0..Len(tmsg0) :
                  /\ IsCharPrefix(SubSeq(tmsg0, 1, n), tmsg0)
                  /\ tmsg = SubSeq(tmsg0, 1, n) \o Ellipsis

\* The labels the rows of the section at place i show, and the JSON Names of
\* a group of entries.
RowLabels(i) == [r \in 1..Len(out[i].rows) |-> out[i].rows[r].label]
EntryNames(items) == [r \in 1..Len(items) |-> items[r].Name]

\* The labels the output shows are those of `want`, a function from the
\* owning member and its values to labels.
LabelsAre(want(_, _)) ==
    /\ format \in {textFormat, markdownFormat} =>
         \A i \in SectionIdx :
             out[i].k # "None" => RowLabels(i) = want(OwnerOf(i), ValuesOf(i))
    /\ format = jsonFormat =>
         \A e \in {OfKind("JSON")[n] : n \in 1..Len(OfKind("JSON"))} :
             \A i \in 1..Len(e.doc.Fields.items) :
                 LET f == e.doc.Fields.items[i]
                     m == Rendered(fields)[i]
                 IN  /\ EntryNames(f.Inputs.items) = want(m, m.inputs)
                     /\ EntryNames(f.Outputs.items) = want(m, m.outputs)

StripPackageName(m, vs) ==
    [r \in 1..Len(vs) |-> TrimPrefix(vs[r].path, PackageName \o Dot)]

\* C6 as stated: the label of every row is the value's path with the package
\* name and a dot taken off its front.
C6_PackageNameLabels == LabelsAre(StripPackageName)

\* the paths with the member's label and a dot taken off where they start so
LabelsUnderMember(m, vs) ==
    [r \in 1..Len(vs) |->
        IF HasPrefix(vs[r].path, m.label \o Dot)
        THEN SubSeq(vs[r].path, Len(m.label) + 2, Len(vs[r].path))
        ELSE vs[r].path]

\* C6 amended: the label of every row is the value's path with the label of
\* the field it belongs to (field.Label()) and a dot taken off its front.
C6_FieldNameLabels == LabelsAre(LabelsUnderMember)

\* a row of "#B" labelled "y.z"
C6_Witness ==
    /\ format = markdownFormat
    /\ \E i \in SectionIdx :
           /\ out[i].k = "Table"
           /\ OwnerOf(i) = MemberB
           /\ RowLabels(i) = <<<<120>>, <<121, 46, 122>>>>

\* C7: every Fields entry of the emitted JSON document has Inputs and Outputs
\* that are arrays, never null, as long as the classifier's sequences, and
\* there is one entry per rendered field.
C7_JSONSequences ==
    \A n \in 1..Len(out) :
        out[n].k = "JSON" =>
            /\ Len(out[n].doc.Fields.items) = Len(Rendered(val.members))
            /\ \A i \in 1..Len(out[n].doc.Fields.items) :
                 LET f == out[n].doc.Fields.items[i]
                     m == Rendered(val.members)[i]
                 IN  /\ ~f.Inputs.null
                     /\ ~f.Outputs.null
                     /\ Len(f.Inputs.items) = Len(m.inputs)
                     /\ Len(f.Outputs.items) = Len(m.outputs)

\* the document of a package whose one rendered field has two inputs and no
\* output
C7_Witness ==
    /\ pc = "done"
    /\ format = jsonFormat
    /\ Rendered(val.members) = <<MemberB>>
    /\ Len(out) = 1
    /\ Len(out[1].doc.Fields.items[1].Inputs.items) = 2
    /\ out[1].doc.Fields.items[1].Outputs = [null |-> FALSE, items |-> <<>>]

Populated(f) == ~f.Inputs.nil /\ ~f.Outputs.nil

C8_State ==
    /\ format = jsonFormat =>
         /\ pc # "done" => out = <<>>
         /\ pc = "done" =>
              /\ out = <<[k |-> "JSON", doc |-> MarshalPackage(packageJSON)]>>
              /\ Len(packageJSON.Fields.elems) = Len(Rendered(val.members))
         /\ pc = "outputs" => ~fieldJSON.Inputs.nil /\ fieldJSON.Outputs.nil
         /\ Len(packageJSON.Fields.elems) = FinishedCount
         /\ \A i \in 1..Len(packageJSON.Fields.elems) :
                Populated(packageJSON.Fields.elems[i])
    /\ format \in {textFormat, markdownFormat} => OfKind("JSON") = <<>>

C8_Step ==
    /\ (format = jsonFormat /\ out' # out) => (pc = "marshal" /\ pc' = "done")
    /\ (format \in {textFormat, markdownFormat} /\ out' # out) =>
           pc \in {"header", "loop", "inputs", "outputs"}
    /\ (pc = "loop" /\ idx > Len(fields)) => out' = out

\* C8: in json mode the output is written once, at the end of the run, and
\* the document written holds every rendered field with its Inputs and its
\* Outputs set: a record has its Inputs before its outputs are computed and
\* joins Fields with both.  In text and Markdown modes nothing is written
\* once the loop over the fields has ended.
C8_EmitOnce == []C8_State /\ [][C8_Step]_vars

\* a json run that wrote a document of two fields
C8_Witness ==
    /\ pc = "done"
    /\ format = jsonFormat
    /\ Len(out) = 1
    /\ Len(out[1].doc.Fields.items) = 2

\* C9: when val.Fields fails the run ends with a fatal error, nothing has
\* been written to the output, no field has been looked at, and no step
\* follows.
C9_NoPartialOutput ==
    (pc = "fatal" /\ log = <<"cannot get fields">>) =>
        /\ out = <<>>
        /\ fields = <<>>
        /\ idx = 1
        /\ packageJSON = ZeroPackageJSON
        /\ ~ENABLED Next

\* the listing of a package with members fails in text mode
C9_Witness ==
    /\ pc = "fatal"
    /\ log = <<"cannot get fields">>
    /\ format = textFormat
    /\ Len(val.members) > 0

\* C10: terminalTrim leaves the message as it is, and returns it, when the
\* width cannot be read, and when the message has no more characters than
\* half the width.
C10_TrimUnchanged ==
    (term.err \/ RuneCountInString(tmsg0) <= HalfWidth(term)) =>
        /\ tmsg = tmsg0
        /\ tpc # "panic"

\* a message of exactly half the width is returned as it is
C10_Witness ==
    /\ tpc = "ret"
    /\ ~term.err
    /\ Len(tmsg0) > 2
    /\ RuneCountInString(tmsg0) = HalfWidth(term)
    /\ tmsg = tmsg0

====
